---- MODULE Spec2Model ----
(***************************************************************************)
(* Model of the document retrieval core of Mahhen/udb:                     *)
(*   src/pdf_processor.py  extract_text_from_pdf, chunk_text               *)
(*   src/vector_store.py   SimpleLRUCache, VectorStore                     *)
(* Strings are sequences of one-character strings.                         *)
(***************************************************************************)
EXTENDS Integers, Sequences, FiniteSets, TLC

(* ------------------------------ bounds -------------------------------- *)
MaxLen == 6          \* longest text over the whole alphabet handed to chunk_text
MaxRun == 11         \* longest run of letters on either side of a sentence end
MaxChunkSize == 17   \* largest chunk_size tried
MaxPages == 2        \* most pages of a document
MaxPageLen == 2      \* longest raw page text
MaxChunks == 12      \* cap on len(chunks) while the loop of chunk_text runs
CacheCapacity == 2   \* capacity of the store's SimpleLRUCache, scaled down from 256
MaxK == 2            \* largest k passed to search
MaxBudget == 8       \* largest max_context_length passed to get_context_for_query
MaxBuilds == 2       \* most create_from_chunks calls on one store
MaxFiles == 2        \* most files uploaded in one process_documents call
MaxIngests == 2      \* most ingestion calls in one app session
NumThreads == 2      \* callers running search concurrently on one store

(* ------------------------- program constants -------------------------- *)
ScanWindow == 120    \* end - 120 in chunk_text
SnippetCap == 800    \* chunk.get('text', '')[:800] in get_context_for_query
DefaultChunkSize == 1000  \* chunk_size: int = 1000 of chunk_text
DefaultOverlap == 200     \* overlap: int = 200 of chunk_text

(* ------------------------------ strings ------------------------------- *)
Alphabet == {"a", ".", " "}

IsSpace(c) == c \in {" ", "\n"}

IsTerm(c) == c \in {".", "!", "?"}

StringsUpTo(n) == UNION {[1..m -> Alphabet] : m \in 0..n}

\* the character c repeated n times
Rep(c, n) == [i \in 1..n |-> c]

\* two sentences: letters, a terminator and a blank, letters
SentenceTexts ==
  {Rep("a", i) \o <<".", " ">> \o Rep("a", j) : i, j \in 0..MaxRun}

\* the texts handed to chunk_text
Texts == StringsUpTo(MaxLen) \cup SentenceTexts

\* the chunk sizes tried on a text of length n (every size above n behaves
\* as n + 1 does)
SizesFor(n) == {size \in 1..MaxChunkSize : size <= n + 1}

SetMin(S) == CHOOSE x \in S : \A y \in S : x <= y

SetMax(S) == CHOOSE x \in S : \A y \in S : x >= y

\* Python's normalisation of one slice index against a length n
PyIdx(i, n) == IF i < 0 THEN (IF i + n < 0 THEN 0 ELSE i + n)
               ELSE (IF i > n THEN n ELSE i)

\* Python's s[a:b] (0-based, negative indices count from the end)
PySlice(s, a, b) ==
  LET lo == PyIdx(a, Len(s))
      hi == PyIdx(b, Len(s))
  IN  IF lo >= hi THEN <<>> ELSE SubSeq(s, lo + 1, hi)

\* a strip that removes nothing
StripNothing(s) == s

\* str.strip()
Strip(s) ==
  LET keep == {i \in 1..Len(s) : ~IsSpace(s[i])}
  IN  IF keep = {} THEN <<>> ELSE SubSeq(s, SetMin(keep), SetMax(keep))

\* len(s.split()): the number of maximal runs of non-whitespace
Tokens(s) ==
  Cardinality({i \in 1..Len(s) : ~IsSpace(s[i]) /\ (i = 1 \/ IsSpace(s[i-1]))})

\* m[-1].end() for m = list(re.finditer(r'([.!?]\s+)', snippet)), or -1 when
\* m is empty: the last terminator followed by whitespace, and the end of the
\* whitespace run after it (greedy \s+, limited to the snippet)
LastBoundaryEnd(snippet) ==
  LET starts == {i \in 1..(Len(snippet) - 1) :
                    IsTerm(snippet[i]) /\ IsSpace(snippet[i+1])}
  IN  IF starts = {} THEN -1
      ELSE LET i == SetMax(starts)
           IN  SetMax({j \in (i+1)..Len(snippet) :
                          \A h \in (i+1)..j : IsSpace(snippet[h])})

\* int(chunk_size * 0.4)
SnapThreshold(chunk_size) == (chunk_size * 2) \div 5

(* ------------------------------- state -------------------------------- *)
VARIABLES
  pc,            \* position in extract_text_from_pdf / chunk_text
  text,          \* the flattened text
  page_mapping,  \* dict: character offset -> page number
  chunk_size,
  overlap,
  start,         \* loop variable of chunk_text
  chunks,        \* the chunk list chunk_text builds
  dropped,       \* history: dropped[i] = 1 iff a candidate was dropped just before
                 \* chunks[i] (the last entry: since the last chunk)
  doc            \* history: the document text and page_mapping were extracted from

chunkVars == <<pc, text, page_mapping, chunk_size, overlap, start, chunks, dropped, doc>>

(* state of one VectorStore instance and of its caller *)
VARIABLES
  index,         \* self.index: None, or the vectors added to the FAISS index
  store_chunks,  \* self.chunks
  cache,         \* self.cache.data: the OrderedDict, oldest entry first
  ret,           \* the last call on the store and what it returned
  builds,        \* history: create_from_chunks calls since construction
  last_build,    \* history: how the last create_from_chunks call ended
  evicted,       \* history: the cache has evicted an entry
  since_clear    \* history: what happened since the last clear() (phase), and
                 \* the cache entries that clear() found (before)

storeVars == <<index, store_chunks, cache, ret, builds, last_build, evicted,
               since_clear>>

(* concurrent callers of search on the store *)
VARIABLES
  thr            \* per caller: position in search, arguments, local value

(* a SimpleLRUCache of its own, used directly *)
VARIABLES
  lru            \* capacity and data of the cache, the last call on it and what
                 \* it returned; history: uses (the keys held, by most recent
                 \* get that hit or set, oldest first) and written (the value
                 \* last set per key)

(* the Streamlit session of one of the apps *)
VARIABLES
  sess           \* st.session_state, and the last ingestion call with what it
                 \* returned; history: creates (create_from_chunks calls made
                 \* by that call) and no_content (no file of it had text)

(* a ChatHandler on the store *)
VARIABLES
  chat           \* self.conversation_history, and the last call on the handler
                 \* with what the model did and what the call returned

(* the Streamlit session of app3.py or app4.py after ingestion *)
VARIABLES
  ui             \* st.session_state with the type of every value, and the last
                 \* user action with how it ended; history: the author of
                 \* every memory_buffer item

uiVars == <<chat, ui>>

auxVars == <<lru, sess, uiVars>>

vars == <<chunkVars, storeVars, thr, auxVars>>

(* ----------------------- extract_text_from_pdf ------------------------ *)
\* A page as the PDF library and the OCR engine see it.
PageInputs ==
  {[text |-> t, ocr |-> <<>>] : t \in StringsUpTo(MaxPageLen)}
    \cup {[text |-> <<>>, ocr |-> o] : o \in {<<"a">>, <<" ">>}}

\* page_text of one page
PageText(page, has_ocr) ==
  LET stripped == Strip(page.text)
  IN  IF stripped = <<>> /\ has_ocr THEN page.ocr ELSE stripped

RECURSIVE ExtractFromNoSeparator(_, _, _, _, _, _)
\* the for-loop over the pages, adding no "\n\n" after a page
ExtractFromNoSeparator(pages, has_ocr, page_num, full_text, mapping, current_pos) ==
  IF page_num > Len(pages) THEN <<full_text, mapping>>
  ELSE LET page_text == PageText(pages[page_num], has_ocr)
           here == {current_pos + i : i \in 0..(Len(page_text) - 1)}
           mapping2 == [o \in (DOMAIN mapping) \cup here |->
                          IF o \in here THEN page_num ELSE mapping[o]]
       IN  ExtractFromNoSeparator(pages, has_ocr, page_num + 1,
                                  full_text \o page_text,
                                  mapping2, current_pos + Len(page_text))

RECURSIVE ExtractFrom(_, _, _, _, _, _)
\* the for-loop over the pages, from page number page_num on
ExtractFrom(pages, has_ocr, page_num, full_text, mapping, current_pos) ==
  IF page_num > Len(pages) THEN <<full_text, mapping>>
  ELSE LET page_text == PageText(pages[page_num], has_ocr)
           here == {current_pos + i : i \in 0..(Len(page_text) - 1)}
           mapping2 == [o \in (DOMAIN mapping) \cup here |->
                          IF o \in here THEN page_num ELSE mapping[o]]
       IN  ExtractFrom(pages, has_ocr, page_num + 1,
                       full_text \o page_text \o <<"\n", "\n">>,
                       mapping2, current_pos + Len(page_text) + 2)

extract_text_from_pdf(pages, has_ocr) ==
  ExtractFrom(pages, has_ocr, 1, <<>>, <<>>, 0)

\* page_mapping.get(mid, 1)
PageGet(mapping, mid) == IF mid \in DOMAIN mapping THEN mapping[mid] ELSE 1

(* ----------------------------- chunk_text ----------------------------- *)
\* SnappedEnd without the `else: end = n` branch
SnappedEndNoClamp(txt, st, size) ==
  LET n == Len(txt)
      end == st + size
  IN  IF end < n
      THEN LET search_start == IF st > end - ScanWindow THEN st ELSE end - ScanWindow
               snippet == PySlice(txt, search_start, end + 1)
               last_end == LastBoundaryEnd(snippet)
               new_end == search_start + last_end
           IN  IF last_end # -1 /\ new_end - st > SnapThreshold(size)
               THEN new_end ELSE end
      ELSE end

\* the value of end after the snapping block of one iteration
SnappedEnd(txt, st, size) ==
  LET n == Len(txt)
      end == st + size
  IN  IF end < n
      THEN LET search_start == IF st > end - ScanWindow THEN st ELSE end - ScanWindow
               snippet == PySlice(txt, search_start, end + 1)
               last_end == LastBoundaryEnd(snippet)
               new_end == search_start + last_end
           IN  IF last_end # -1 /\ new_end - st > SnapThreshold(size)
               THEN new_end ELSE end
      ELSE n

\* NextStart forgetting the overlap
NextStartNoOverlap(end, ovl) == end

\* start for the next iteration
NextStart(end, ovl) == end - ovl

\* the dict appended for a candidate with non-empty stripped text
MakeChunk(txt, mapping, st, end) ==
  LET chunk_txt == Strip(PySlice(txt, st, end))
      mid == st + (end - st) \div 2
  IN  [text |-> chunk_txt, page |-> PageGet(mapping, mid),
       start_pos |-> st, end_pos |-> end, tokens |-> Tokens(chunk_txt)]

NoDoc == [from_pdf |-> FALSE, pages |-> <<>>, has_ocr |-> FALSE]

ChunkInit ==
  /\ pc = "idle"
  /\ text = <<>>
  /\ page_mapping = <<>>
  /\ chunk_size = 1
  /\ overlap = 0
  /\ start = 0
  /\ chunks = <<>>
  /\ dropped = <<0>>
  /\ doc = NoDoc

\* chunk_text(t, {i: 1 for i in range(len(t))}, size, ovl), as the tests call it
CallChunkText ==
  /\ pc = "idle"
  /\ \E t \in Texts :
    \E size \in SizesFor(Len(t)) :
    \E ovl \in 0..(size - 1) :
      /\ text' = t
      /\ page_mapping' = [o \in 0..(Len(t) - 1) |-> 1]
      /\ chunk_size' = size
      /\ overlap' = ovl
      /\ start' = 0
      /\ chunks' = <<>>
      /\ dropped' = <<0>>
      /\ doc' = NoDoc
      /\ pc' = "loop"
  /\ UNCHANGED <<storeVars, thr, auxVars>>

\* text, page_mapping = extract_text_from_pdf(path); chunk_text(text, page_mapping, ...)
ExtractAndCall ==
  /\ pc = "idle"
  /\ \E np \in 0..MaxPages, has_ocr \in BOOLEAN :
    \E pages \in [1..np -> PageInputs] :
    \E r \in {extract_text_from_pdf(pages, has_ocr)} :
    \E size \in SizesFor(Len(r[1])) :
    \E ovl \in 0..(size - 1) :
          /\ text' = r[1]
          /\ page_mapping' = r[2]
          /\ chunk_size' = size
          /\ overlap' = ovl
          /\ start' = 0
          /\ chunks' = <<>>
          /\ dropped' = <<0>>
          /\ doc' = [from_pdf |-> TRUE, pages |-> pages, has_ocr |-> has_ocr]
          /\ pc' = "loop"
  /\ UNCHANGED <<storeVars, thr, auxVars>>

\* one iteration of `while start < n`
ChunkStep ==
  /\ pc = "loop"
  /\ start < Len(text)
  /\ Len(chunks) < MaxChunks
  /\ \E end \in {SnappedEnd(text, start, chunk_size)} :
     LET kept == Strip(PySlice(text, start, end)) # <<>>
         k == Len(dropped)
     IN  /\ chunks' = IF kept
                      THEN Append(chunks, MakeChunk(text, page_mapping, start, end))
                      ELSE chunks
         /\ dropped' = IF kept THEN Append(dropped, 0)
                       ELSE [dropped EXCEPT ![k] = 1]
         /\ IF end >= Len(text)
            THEN pc' = "done" /\ start' = start
            ELSE pc' = "loop" /\ start' = NextStart(end, overlap)
  /\ UNCHANGED <<text, page_mapping, chunk_size, overlap, doc>>
  /\ UNCHANGED <<storeVars, thr, auxVars>>

\* `while start < n` is false on entry: return chunks
ChunkReturn ==
  /\ pc = "loop"
  /\ ~(start < Len(text))
  /\ pc' = "done"
  /\ UNCHANGED <<text, page_mapping, chunk_size, overlap, start, chunks, dropped, doc>>
  /\ UNCHANGED <<storeVars, thr, auxVars>>

ChunkNext == CallChunkText \/ ExtractAndCall \/ ChunkStep \/ ChunkReturn


(* --------------------------- SimpleLRUCache --------------------------- *)
\* `key in self.data`
CacheHas(data, key) == \E i \in 1..Len(data) : data[i].key = key

\* position of key in the OrderedDict (key is present)
CachePos(data, key) == CHOOSE i \in 1..Len(data) : data[i].key = key

\* self.data[key]
CacheRead(data, key) == data[CachePos(data, key)].value

\* the sequence without its i-th element
RemoveAt(seq, i) == SubSeq(seq, 1, i - 1) \o SubSeq(seq, i + 1, Len(seq))

\* self.data.move_to_end(key)
MoveToEnd(data, key) ==
  LET i == CachePos(data, key) IN Append(RemoveAt(data, i), data[i])

\* self.data[key] = value: replaces in place, or appends a new entry
CacheStore(data, key, value) ==
  IF CacheHas(data, key)
  THEN [data EXCEPT ![CachePos(data, key)].value = value]
  ELSE Append(data, [key |-> key, value |-> value])

\* self.data.popitem(last=False)
PopOldest(data) == Tail(data)

\* a get that leaves the order of the OrderedDict alone
CacheAfterGetNoMove(data, key) == data

\* SimpleLRUCache.get: the OrderedDict after the call
CacheAfterGet(data, key) ==
  IF CacheHas(data, key) THEN MoveToEnd(data, key) ELSE data

\* SimpleLRUCache.get: the value returned, <<FALSE, _>> standing for None
CacheGetValue(data, key) ==
  IF CacheHas(data, key) THEN <<TRUE, CacheRead(data, key)>> ELSE <<FALSE, <<>>>>

\* a set that never evicts
CacheSetNoEvict(data, key, value, capacity) ==
  MoveToEnd(CacheStore(data, key, value), key)

\* SimpleLRUCache.set: the OrderedDict after the call
CacheSet(data, key, value, capacity) ==
  LET d == MoveToEnd(CacheStore(data, key, value), key)
  IN  IF Len(d) > capacity THEN PopOldest(d) ELSE d

(* ----------------------------- VectorStore ---------------------------- *)
\* the chunk dicts callers hand to create_from_chunks
SampleChunks ==
  << [text |-> <<"a", "b">>, page |-> 1],
     [text |-> <<"a", "b", "c", "d">>, page |-> 2, document |-> <<"D">>],
     [text |-> <<"b", "c", "d", "e", "f", "g">>, page |-> 12, doc |-> <<"E">>] >>

\* the chunk lists tried: every list of one or two sample chunks
ChunkLists ==
  {<<SampleChunks[i]>> : i \in 1..3}
    \cup {<<SampleChunks[i], SampleChunks[j]>> : i, j \in 1..3}

Queries == {<<"a">>, <<"b", "c">>}

\* hashlib.sha256(query.encode('utf-8')).hexdigest()
Sha256(query) ==
  CASE query = <<"a">> ->
         "ca978112ca1bbdcafac231b39a23dc4da786eff8147c4e72b9807785afee48bb"
    [] query = <<"b", "c">> ->
         "1e0bbd6c686ba050b8eb03ffeedc64fdc9d80947fce821abbe5d6dc8d252c5ac"
    [] query = <<"d">> ->
         "18ac3e7343f016890c510e93f935261169d9e3f565436429830faf0934f4f8e4"

\* the cache key of search, with k left out
CacheKeyNoK(query, k) == <<Sha256(query), 0>>

\* (key, k) in search
CacheKey(query, k) == <<Sha256(query), k>>

\* inner product of the normalised embeddings of a query and a chunk text
\* (the embedding model is external: a fixed stand-in with ties)
Score(query, txt) ==
  Cardinality({i \in 1..Len(txt) : \E j \in 1..Len(query) : query[j] = txt[i]})

\* chunk.get(field, default)
DictGet(d, field, default) == IF field \in DOMAIN d THEN d[field] ELSE default

\* the loop `for c in chunks: if 'document' not in c: ...` for one chunk
EnsureDocument(c) ==
  IF "document" \in DOMAIN c THEN c
  ELSE c @@ ("document" :> DictGet(c, "doc", <<"U", "n", "k", "n", "o", "w", "n">>))

\* the distance FAISS reports at a position it has no vector for (the
\* lowest float32, below every inner product)
MissingScore == -1

RECURSIVE Distances(_, _)
\* the inner products of the query with every vector of the index, in
\* insertion order
Distances(vecs, query) ==
  IF Len(vecs) = 0 THEN <<>>
  ELSE <<Score(query, Head(vecs))>> \o Distances(Tail(vecs), query)

\* an index search that reports the kk least similar vectors, least first
IndexSearchWorstFirst(vecs, query, kk) ==
  LET dist == Distances(vecs, query)
      worse(i, j) == dist[i] < dist[j] \/ (dist[i] = dist[j] /\ i < j)
      rank(i) == Cardinality({j \in 1..Len(vecs) : worse(j, i)})
      at(p) == CHOOSE i \in 1..Len(vecs) : rank(i) = p - 1
  IN  [p \in 1..kk |->
         IF p <= Len(vecs) THEN [id |-> at(p) - 1, dist |-> dist[at(p)]]
         ELSE [id |-> -1, dist |-> MissingScore]]

\* self.index.search(q_emb, kk): per position the 0-based id and distance of
\* the next best vector, best first, ties by insertion order; positions past
\* the number of vectors hold id -1
IndexSearch(vecs, query, kk) ==
  LET dist == Distances(vecs, query)
      better(i, j) == dist[i] > dist[j] \/ (dist[i] = dist[j] /\ i < j)
      rank(i) == Cardinality({j \in 1..Len(vecs) : better(j, i)})
      at(p) == CHOOSE i \in 1..Len(vecs) : rank(i) = p - 1
  IN  [p \in 1..kk |->
         IF p <= Len(vecs) THEN [id |-> at(p) - 1, dist |-> dist[at(p)]]
         ELSE [id |-> -1, dist |-> MissingScore]]

\* self.chunks[idx] for an idx < len(self.chunks); a negative idx counts from
\* the end
ChunkAt(chs, idx) == IF idx < 0 THEN chs[Len(chs) + idx + 1] ELSE chs[idx + 1]

\* lines 75-82 of search: the result list computed from the index
FreshSearch(idx, chs, query, k) ==
  LET kk == IF k < Len(chs) THEN k ELSE Len(chs)
      hits == SelectSeq(IndexSearch(idx.vecs, query, kk),
                        LAMBDA h : h.id < Len(chs))
  IN  [p \in 1..Len(hits) |->
         [chunk |-> ChunkAt(chs, hits[p].id), score |-> hits[p].dist]]

\* search without the `self.index is None` test of line 66: line 78 calls
\* search on None
SearchCallNoIndexTest(idx, chs, data, query, k) ==
  IF Len(chs) = 0 THEN <<<<>>, data, FALSE, FALSE>>
  ELSE IF ~idx.built THEN <<<<>>, data, FALSE, TRUE>>
  ELSE LET key == CacheKey(query, k)
           cached == CacheGetValue(data, key)
           data1 == CacheAfterGet(data, key)
       IN  IF cached[1] /\ cached[2] # <<>>
           THEN <<cached[2], data1, TRUE, FALSE>>
           ELSE LET results == FreshSearch(idx, chs, query, k)
                IN  <<results, CacheSet(data1, key, results, CacheCapacity), FALSE, FALSE>>

\* search without the `len(self.chunks) == 0` test of line 66: line 78 asks
\* the index for min(k, 0) = 0 neighbours, which FAISS rejects
SearchCallNoLenTest(idx, chs, data, query, k) ==
  IF ~idx.built THEN <<<<>>, data, FALSE, FALSE>>
  ELSE IF Len(chs) = 0 THEN <<<<>>, data, FALSE, TRUE>>
  ELSE LET key == CacheKey(query, k)
           cached == CacheGetValue(data, key)
           data1 == CacheAfterGet(data, key)
       IN  IF cached[1] /\ cached[2] # <<>>
           THEN <<cached[2], data1, TRUE, FALSE>>
           ELSE LET results == FreshSearch(idx, chs, query, k)
                IN  <<results, CacheSet(data1, key, results, CacheCapacity), FALSE, FALSE>>

\* what search does: <<result list, cache after the call, hit?, raised?>>
SearchCall(idx, chs, data, query, k) ==
  IF ~idx.built \/ Len(chs) = 0 THEN <<<<>>, data, FALSE, FALSE>>
  ELSE LET key == CacheKey(query, k)
           cached == CacheGetValue(data, key)
           data1 == CacheAfterGet(data, key)
       IN  IF cached[1] /\ cached[2] # <<>>
           THEN <<cached[2], data1, TRUE, FALSE>>
           ELSE LET results == FreshSearch(idx, chs, query, k)
                IN  <<results, CacheSet(data1, key, results, CacheCapacity), FALSE, FALSE>>

(* ------------------------ get_context_for_query ----------------------- *)
Digit(d) == CASE d = 0 -> "0" [] d = 1 -> "1" [] d = 2 -> "2" [] d = 3 -> "3"
              [] d = 4 -> "4" [] d = 5 -> "5" [] d = 6 -> "6" [] d = 7 -> "7"
              [] d = 8 -> "8" [] d = 9 -> "9"

RECURSIVE IntToStr(_)
\* str(n) for n >= 0
IntToStr(n) == IF n < 10 THEN <<Digit(n)>>
               ELSE Append(IntToStr(n \div 10), Digit(n % 10))

Marker == <<".", ".", ".">>

Separator == <<"\n", "\n", "-", "-", "-", "\n", "\n">>

\* a truncation that keeps the whole text
TruncateKeepAll(txt, remaining) == txt

\* the marker rule of the truncation, always adding the marker
TruncateAlwaysMark(txt, remaining) ==
  PySlice(txt, 0, IF remaining > 0 THEN remaining ELSE 0) \o Marker

\* add_txt[:max(0, remaining)] + ("..." if remaining > 3 else "")
Truncate(txt, remaining) ==
  PySlice(txt, 0, IF remaining > 0 THEN remaining ELSE 0)
    \o (IF remaining > 3 THEN Marker ELSE <<>>)

\* f"[{chunk.get('document','doc')} - Page {chunk.get('page','?')}]\n{add_txt}"
ContextPart(chunk, add_txt) ==
  <<"[">> \o DictGet(chunk, "document", <<"d", "o", "c">>)
    \o <<" ", "-", " ", "P", "a", "g", "e", " ">>
    \o (IF "page" \in DOMAIN chunk THEN IntToStr(chunk.page) ELSE <<"?">>)
    \o <<"]", "\n">> \o add_txt

\* the dict appended to sources, with the whole chunk text
SourceNoCap(chunk, score) ==
  [document |-> DictGet(chunk, "document", <<"U", "n", "k", "n", "o", "w", "n">>),
   page |-> DictGet(chunk, "page", "None"),
   text |-> DictGet(chunk, "text", <<>>),
   relevance_score |-> score]

\* the dict appended to sources
Source(chunk, score) ==
  [document |-> DictGet(chunk, "document", <<"U", "n", "k", "n", "o", "w", "n">>),
   page |-> DictGet(chunk, "page", "None"),
   text |-> PySlice(DictGet(chunk, "text", <<>>), 0, SnippetCap),
   relevance_score |-> score]

RECURSIVE JoinParts(_)
\* "\n\n---\n\n".join(context_parts)
JoinParts(parts) ==
  IF Len(parts) = 0 THEN <<>>
  ELSE IF Len(parts) = 1 THEN parts[1]
  ELSE parts[1] \o Separator \o JoinParts(Tail(parts))

RECURSIVE AssembleNoBreak(_, _, _, _, _)
\* the for-loop without its break: every result is placed
AssembleNoBreak(results, i, budget, cur_len, acc) ==
  IF i > Len(results) THEN acc
  ELSE LET chunk == results[i].chunk
           txt == chunk.text
           crosses == cur_len + Len(txt) > budget
           add_txt == IF crosses THEN Truncate(txt, budget - cur_len) ELSE txt
           acc2 == [context_parts |-> Append(acc.context_parts, ContextPart(chunk, add_txt)),
                    sources |-> Append(acc.sources, Source(chunk, results[i].score)),
                    bodies |-> Append(acc.bodies,
                                 [txt |-> txt, add_txt |-> add_txt, before |-> cur_len])]
       IN  AssembleNoBreak(results, i + 1, budget, cur_len + Len(add_txt), acc2)

RECURSIVE Assemble(_, _, _, _, _)
\* the for-loop over results from position i on; acc holds context_parts,
\* sources and, per included chunk, the body placed and the running length
\* before it
Assemble(results, i, budget, cur_len, acc) ==
  IF i > Len(results) THEN acc
  ELSE LET chunk == results[i].chunk
           txt == chunk.text
           crosses == cur_len + Len(txt) > budget
           add_txt == IF crosses THEN Truncate(txt, budget - cur_len) ELSE txt
           acc2 == [context_parts |-> Append(acc.context_parts, ContextPart(chunk, add_txt)),
                    sources |-> Append(acc.sources, Source(chunk, results[i].score)),
                    bodies |-> Append(acc.bodies,
                                 [txt |-> txt, add_txt |-> add_txt, before |-> cur_len])]
       IN  IF cur_len + Len(add_txt) >= budget THEN acc2
           ELSE Assemble(results, i + 1, budget, cur_len + Len(add_txt), acc2)

NoParts == [context_parts |-> <<>>, sources |-> <<>>, bodies |-> <<>>]

\* an assembly that returns nothing when the first chunk does not fit
ContextForWholeOnly(results, budget) ==
  IF results = <<>> \/ Len(results[1].chunk.text) > budget
  THEN [context |-> <<>>, sources |-> <<>>, bodies |-> <<>>]
  ELSE LET acc == Assemble(results, 1, budget, 0, NoParts)
       IN  [context |-> JoinParts(acc.context_parts), sources |-> acc.sources,
            bodies |-> acc.bodies]

\* lines 91-115 of get_context_for_query, given the result list of search
ContextFor(results, budget) ==
  IF results = <<>> THEN [context |-> <<>>, sources |-> <<>>, bodies |-> <<>>]
  ELSE LET acc == Assemble(results, 1, budget, 0, NoParts)
       IN  [context |-> JoinParts(acc.context_parts), sources |-> acc.sources,
            bodies |-> acc.bodies]

(* ------------------------- operations on a store ---------------------- *)
NoIndex == [built |-> FALSE, vecs |-> <<>>]

Ret(op, query, k, budget, value, hit, ctx) ==
  [op |-> op, query |-> query, k |-> k, budget |-> budget, value |-> value,
   hit |-> hit, raised |-> FALSE, context |-> ctx.context,
   sources |-> ctx.sources, bodies |-> ctx.bodies]

\* the call ended in an exception
Raising(r) == [r EXCEPT !.raised = TRUE]

NoCtx == [context |-> <<>>, sources |-> <<>>, bodies |-> <<>>]

\* VectorStore.__init__
StoreInit ==
  /\ index = NoIndex
  /\ store_chunks = <<>>
  /\ cache = <<>>
  /\ ret = Ret("init", <<>>, 0, 0, <<>>, FALSE, NoCtx)
  /\ builds = 0
  /\ last_build = "none"
  /\ evicted = FALSE
  /\ since_clear = [phase |-> "never", before |-> <<>>]

\* the chunk lists handed to create_from_chunks
BuildInputs == ChunkLists \cup {<<>>}

\* create_from_chunks(cl) on a store with index idx: self.chunks, self.index
\* and how the call ended. encode_ok: the embedding model returned; for an
\* empty list it returns an array of shape (0,), on which _normalize raises
\* (norm over axis 1), so line 59 is not reached.
CreateCall(idx, cl, encode_ok) ==
  LET chs == [i \in 1..Len(cl) |-> EnsureDocument(cl[i])]
  IN  IF Len(cl) = 0 THEN [chunks |-> chs, index |-> idx, ended |-> "empty"]
      ELSE IF ~encode_ok THEN [chunks |-> chs, index |-> idx, ended |-> "failed"]
      ELSE [chunks |-> chs,
            index |-> [built |-> TRUE, vecs |-> [i \in 1..Len(chs) |-> chs[i].text]],
            ended |-> "ok"]

\* what a create_from_chunks call that ended as given makes of the time since
\* the last clear(): the first build that succeeds on the cleared store is
\* the rebuild, any call after it makes the store one that was built again
SinceClear(sc, ended) ==
  IF sc.phase = "cleared" /\ ended = "ok" THEN [sc EXCEPT !.phase = "rebuilt"]
  ELSE IF sc.phase = "rebuilt" THEN [sc EXCEPT !.phase = "again"]
  ELSE sc

\* create_from_chunks(cl)
CreateFromChunks ==
  /\ builds < MaxBuilds
  /\ \E cl \in BuildInputs, encode_ok \in BOOLEAN :
       \E c \in {CreateCall(index, cl, encode_ok)} :
         /\ store_chunks' = c.chunks
         /\ index' = c.index
         /\ last_build' = c.ended
         /\ since_clear' = SinceClear(since_clear, c.ended)
         /\ ret' = IF c.ended = "ok"
                   THEN Ret("create", <<>>, 0, 0, <<>>, FALSE, NoCtx)
                   ELSE Raising(Ret("create", <<>>, 0, 0, <<>>, FALSE, NoCtx))
  /\ builds' = builds + 1
  /\ UNCHANGED <<cache, evicted>>
  /\ UNCHANGED <<auxVars, chunkVars, thr, auxVars>>

\* search(query, k)
Search ==
  /\ \E query \in Queries, k \in 1..MaxK :
       \E r \in {SearchCall(index, store_chunks, cache, query, k)} :
         /\ cache' = r[2]
         /\ ret' = [Ret("search", query, k, 0, r[1], r[3], NoCtx)
                      EXCEPT !.raised = r[4]]
         /\ evicted' = (evicted \/ (~r[3] /\ Len(r[2]) = Len(cache) /\ index.built
                                      /\ ~CacheHas(cache, CacheKey(query, k))))
  /\ UNCHANGED <<index, store_chunks, builds, last_build, since_clear>>
  /\ UNCHANGED <<auxVars, chunkVars, thr, auxVars>>

\* get_context_for_query(query, k, budget)
GetContextForQuery ==
  /\ \E query \in Queries, k \in 1..MaxK, budget \in 1..MaxBudget :
       \E r \in {SearchCall(index, store_chunks, cache, query, k)} :
         /\ cache' = r[2]
         /\ \E ctx \in {ContextFor(r[1], budget)} :
              ret' = [Ret("context", query, k, budget, r[1], r[3], ctx)
                        EXCEPT !.raised = r[4]]
         /\ evicted' = (evicted \/ (~r[3] /\ Len(r[2]) = Len(cache) /\ index.built
                                      /\ ~CacheHas(cache, CacheKey(query, k))))
  /\ UNCHANGED <<index, store_chunks, builds, last_build, since_clear>>
  /\ UNCHANGED <<auxVars, chunkVars, thr, auxVars>>

\* a clear() that keeps the cache it finds
ClearKeepCache ==
  /\ index' = NoIndex
  /\ store_chunks' = <<>>
  /\ since_clear' = [phase |-> "cleared", before |-> cache]
  /\ ret' = Ret("clear", <<>>, 0, 0, <<>>, FALSE, NoCtx)
  /\ UNCHANGED <<cache, builds, last_build, evicted>>
  /\ UNCHANGED <<auxVars, chunkVars, thr, auxVars>>

\* clear()
Clear ==
  /\ index' = NoIndex
  /\ store_chunks' = <<>>
  /\ cache' = <<>>
  /\ since_clear' = [phase |-> "cleared", before |-> cache]
  /\ ret' = Ret("clear", <<>>, 0, 0, <<>>, FALSE, NoCtx)
  /\ UNCHANGED <<builds, last_build, evicted>>
  /\ UNCHANGED <<auxVars, chunkVars, thr, auxVars>>

StoreNext == CreateFromChunks \/ Search \/ Clear

(* -------------------- search run by concurrent callers ---------------- *)
Threads == 1..NumThreads

Idle == [pc |-> "idle", query |-> <<>>, k |-> 0, val |-> <<>>]

ThreadInit == thr = [t \in Threads |-> Idle]

\* a chunk whose text is longer than the snippet kept in a citation
LongChunk == [text |-> Rep("a", SnippetCap + 1), page |-> 3, document |-> <<"L">>]

\* chunk lists for the citations: one holding the long chunk, and lists of
\* sample chunks with and without a document name
CiteLists ==
  {<<SampleChunks[1], LongChunk>>, <<SampleChunks[3], SampleChunks[2]>>,
   <<SampleChunks[2]>>}

\* one successful create_from_chunks(cl), cl in lists, on the fresh store,
\* before any caller starts
BuildFrom(lists) ==
  /\ ~index.built
  /\ \A t \in Threads : thr[t].pc = "idle"
  /\ \E cl \in lists :
       \E c \in {CreateCall(index, cl, TRUE)} :
         /\ store_chunks' = c.chunks
         /\ index' = c.index
         /\ last_build' = c.ended
         /\ since_clear' = SinceClear(since_clear, c.ended)
  /\ builds' = builds + 1
  /\ UNCHANGED <<cache, evicted, ret, thr>>
  /\ UNCHANGED <<auxVars, chunkVars, auxVars>>

\* the store is built once from one of the sample lists
BuildOnce == BuildFrom(ChunkLists)

\* the store is built once from one of the lists for the citations
BuildCited == BuildFrom(CiteLists)

\* search lines 66-67, and entry into self.cache.get
TBegin(t) ==
  /\ thr[t].pc = "idle"
  /\ \E query \in Queries, k \in 1..MaxK :
       thr' = [thr EXCEPT ![t] =
                 IF ~index.built \/ Len(store_chunks) = 0
                 THEN [pc |-> "done", query |-> query, k |-> k, val |-> <<>>]
                 ELSE [pc |-> "get_test", query |-> query, k |-> k, val |-> <<>>]]
  /\ UNCHANGED <<auxVars, chunkVars, storeVars>>

\* get: `if key in self.data`; on a miss get returns None and search computes
\* the results (lines 75-82) and enters self.cache.set
TGetTest(t) ==
  /\ thr[t].pc = "get_test"
  /\ thr' = [thr EXCEPT ![t] =
               IF CacheHas(cache, CacheKey(thr[t].query, thr[t].k))
               THEN [@ EXCEPT !.pc = "get_move"]
               ELSE [@ EXCEPT !.pc = "set_store",
                              !.val = FreshSearch(index, store_chunks, thr[t].query, thr[t].k)]]
  /\ UNCHANGED <<auxVars, chunkVars, storeVars>>

\* get: self.data.move_to_end(key), KeyError when the key is gone
TGetMove(t) ==
  /\ thr[t].pc = "get_move"
  /\ LET key == CacheKey(thr[t].query, thr[t].k)
     IN  IF CacheHas(cache, key)
         THEN /\ cache' = MoveToEnd(cache, key)
              /\ thr' = [thr EXCEPT ![t].pc = "get_read"]
         ELSE /\ cache' = cache
              /\ thr' = [thr EXCEPT ![t].pc = "failed"]
  /\ UNCHANGED <<auxVars, chunkVars, index, store_chunks, ret, builds, last_build, evicted, since_clear>>

\* get: return self.data[key]; search: `if cached: return cached`
TGetRead(t) ==
  /\ thr[t].pc = "get_read"
  /\ LET key == CacheKey(thr[t].query, thr[t].k)
     IN  thr' = [thr EXCEPT ![t] =
                   IF ~CacheHas(cache, key) THEN [@ EXCEPT !.pc = "failed"]
                   ELSE IF CacheRead(cache, key) # <<>>
                   THEN [@ EXCEPT !.pc = "done", !.val = CacheRead(cache, key)]
                   ELSE [@ EXCEPT !.pc = "set_store",
                                  !.val = FreshSearch(index, store_chunks, thr[t].query, thr[t].k)]]
  /\ UNCHANGED <<auxVars, chunkVars, storeVars>>

\* set: self.data[key] = value
TSetStore(t) ==
  /\ thr[t].pc = "set_store"
  /\ cache' = CacheStore(cache, CacheKey(thr[t].query, thr[t].k), thr[t].val)
  /\ thr' = [thr EXCEPT ![t].pc = "set_move"]
  /\ UNCHANGED <<auxVars, chunkVars, index, store_chunks, ret, builds, last_build, evicted, since_clear>>

\* set: self.data.move_to_end(key), KeyError when the key is gone
TSetMove(t) ==
  /\ thr[t].pc = "set_move"
  /\ LET key == CacheKey(thr[t].query, thr[t].k)
     IN  IF CacheHas(cache, key)
         THEN /\ cache' = MoveToEnd(cache, key)
              /\ thr' = [thr EXCEPT ![t].pc = "set_len"]
         ELSE /\ cache' = cache
              /\ thr' = [thr EXCEPT ![t].pc = "failed"]
  /\ UNCHANGED <<auxVars, chunkVars, index, store_chunks, ret, builds, last_build, evicted, since_clear>>

\* set: `if len(self.data) > self.capacity`; without eviction search returns
TSetLen(t) ==
  /\ thr[t].pc = "set_len"
  /\ thr' = [thr EXCEPT ![t].pc =
               IF Len(cache) > CacheCapacity THEN "set_pop" ELSE "done"]
  /\ UNCHANGED <<auxVars, chunkVars, storeVars>>

\* set: self.data.popitem(last=False), KeyError on an empty dict; search returns
TSetPop(t) ==
  /\ thr[t].pc = "set_pop"
  /\ IF Len(cache) = 0
     THEN /\ thr' = [thr EXCEPT ![t].pc = "failed"]
          /\ UNCHANGED <<cache, evicted>>
     ELSE /\ cache' = PopOldest(cache)
          /\ evicted' = TRUE
          /\ thr' = [thr EXCEPT ![t].pc = "done"]
  /\ UNCHANGED <<auxVars, chunkVars, index, store_chunks, ret, builds, last_build, since_clear>>

\* the caller takes the returned list and may call again
TFinish(t) ==
  /\ thr[t].pc = "done"
  /\ thr' = [thr EXCEPT ![t] = Idle]
  /\ UNCHANGED <<auxVars, chunkVars, storeVars>>

ConcNext ==
  \/ BuildOnce
  \/ \E t \in Threads :
       \/ TBegin(t) \/ TGetTest(t) \/ TGetMove(t) \/ TGetRead(t) \/ TSetStore(t)
       \/ TSetMove(t) \/ TSetLen(t) \/ TSetPop(t) \/ TFinish(t)

ContextNext == BuildOnce \/ GetContextForQuery

CiteNext == BuildCited \/ GetContextForQuery

(* ------------------- a SimpleLRUCache used directly ------------------- *)
LruKeys == {"k1", "k2", "k3"}

LruValues == {"x", "y"}

\* the keys of an OrderedDict
KeysOf(data) == {data[i].key : i \in 1..Len(data)}

\* the sequence without the element e
Without(seq, e) == SelectSeq(seq, LAMBDA x : x # e)

\* before SimpleLRUCache(...) is called
LruInit ==
  lru = [made |-> FALSE, capacity |-> 0, data |-> <<>>, op |-> "none",
         key |-> "", value |-> "", found |-> FALSE, result |-> "",
         uses |-> <<>>, written |-> <<>>]

\* SimpleLRUCache(capacity=c)
LruNew ==
  /\ ~lru.made
  /\ \E c \in 0..CacheCapacity :
       lru' = [lru EXCEPT !.made = TRUE, !.capacity = c, !.op = "new"]
  /\ UNCHANGED <<chunkVars, storeVars, thr, sess, uiVars>>

\* get(key)
LruGet ==
  /\ lru.made
  /\ \E key \in LruKeys :
       \E got \in {CacheGetValue(lru.data, key)} :
         lru' = [lru EXCEPT
                   !.data = CacheAfterGet(lru.data, key),
                   !.op = "get", !.key = key, !.value = "",
                   !.found = got[1],
                   !.result = IF got[1] THEN got[2] ELSE "",
                   !.uses = IF got[1] THEN Append(Without(@, key), key) ELSE @]
  /\ UNCHANGED <<chunkVars, storeVars, thr, sess, uiVars>>

\* set(key, value)
LruSet ==
  /\ lru.made
  /\ \E key \in LruKeys, value \in LruValues :
       \E d \in {CacheSet(lru.data, key, value, lru.capacity)} :
         lru' = [lru EXCEPT
                   !.data = d,
                   !.op = "set", !.key = key, !.value = value,
                   !.found = FALSE, !.result = "",
                   !.uses = SelectSeq(Append(Without(@, key), key),
                                      LAMBDA x : x \in KeysOf(d)),
                   !.written = [x \in DOMAIN @ \cup {key} |->
                                  IF x = key THEN value ELSE @[x]]]
  /\ UNCHANGED <<chunkVars, storeVars, thr, sess, uiVars>>

CacheNext == LruNew \/ LruGet \/ LruSet

(* ---------------------- ingestion in the apps ------------------------- *)
RECURSIVE ChunkLoop(_, _, _, _, _, _)
\* the while loop of chunk_text from start = st on, acc the chunks so far
ChunkLoop(txt, mapping, size, ovl, st, acc) ==
  IF ~(st < Len(txt)) THEN acc
  ELSE LET end == SnappedEnd(txt, st, size)
           acc2 == IF Strip(PySlice(txt, st, end)) # <<>>
                   THEN Append(acc, MakeChunk(txt, mapping, st, end))
                   ELSE acc
       IN  IF end >= Len(txt) THEN acc2
           ELSE ChunkLoop(txt, mapping, size, ovl, NextStart(end, ovl), acc2)

\* chunk_text(text, page_mapping) with the default chunk_size and overlap
chunk_text(txt, mapping) ==
  ChunkLoop(txt, mapping, DefaultChunkSize, DefaultOverlap, 0, <<>>)

\* pages of the uploaded PDFs: blank, with text, blank with whitespace from
\* OCR
BlankPage == [text |-> <<>>, ocr |-> <<>>]

TextPage == [text |-> <<"a">>, ocr |-> <<>>]

SmudgePage == [text |-> <<>>, ocr |-> <<" ">>]

\* the uploaded files tried: their pages, and whether the PDF library can
\* read the file
UploadedFiles ==
  {[pages |-> ps, readable |-> TRUE] :
     ps \in {<<>>, <<BlankPage>>, <<BlankPage, SmudgePage>>, <<TextPage>>,
             <<BlankPage, TextPage>>}}
    \cup {[pages |-> <<>>, readable |-> FALSE]}

\* uploaded_file.name of the i-th file of an upload
FileName(i) == <<"f", Digit(i)>>

\* the test `if not pdf_text.strip()` on the text as extracted
HasTextUnstripped(txt) == txt # <<>>

\* the negation of `not pdf_text.strip()`
HasText(txt) == Strip(txt) # <<>>

\* process_pdf_file of app3.py / app4.py: "raised", "none" (returns None)
\* or "ok" with the chunks
process_pdf_file(f, has_ocr) ==
  IF ~f.readable THEN [status |-> "raised", chunks |-> <<>>]
  ELSE LET r == extract_text_from_pdf(f.pages, has_ocr)
       IN  IF ~HasText(r[1]) THEN [status |-> "none", chunks |-> <<>>]
           ELSE [status |-> "ok", chunks |-> chunk_text(r[1], r[2])]

RECURSIVE Gather(_, _, _, _, _)
\* the for-loop of process_documents from the i-th file on
Gather(files, i, has_ocr, all_chunks, documents) ==
  IF i > Len(files) THEN [all_chunks |-> all_chunks, documents |-> documents]
  ELSE LET info == process_pdf_file(files[i], has_ocr)
           named == [j \in 1..Len(info.chunks) |->
                       [document |-> FileName(i)] @@ info.chunks[j]]
       IN  IF info.status # "ok"
           THEN Gather(files, i + 1, has_ocr, all_chunks, documents)
           ELSE Gather(files, i + 1, has_ocr, all_chunks \o named,
                       Append(documents, [name |-> FileName(i),
                                          chunks |-> Len(info.chunks)]))

\* no file of the upload has text: each is unreadable or its flattened text
\* is empty or whitespace-only, and at least one was read
NoContent(files, has_ocr) ==
  /\ \A i \in 1..Len(files) :
       files[i].readable =>
         Strip(extract_text_from_pdf(files[i].pages, has_ocr)[1]) = <<>>
  /\ \E i \in 1..Len(files) : files[i].readable

NoCall == [op |-> "none", returned |-> "None", creates |-> 0, no_content |-> FALSE]

\* before the app script runs
SessInit ==
  sess = [app |-> "none", has_ocr |-> FALSE, vector_store |-> <<>>,
          chat_handler |-> <<>>, document_name |-> <<>>, documents |-> <<>>,
          insights |-> <<>>,
          messages |-> 0, processing |-> FALSE, calls |-> 0, last |-> NoCall]

\* the script of one of the apps starts: session_state gets its defaults;
\* HAS_OCR was fixed when pdf_processor was imported
RunApp ==
  /\ sess.app = "none"
  /\ \E app \in {"app", "app3", "app4"}, has_ocr \in BOOLEAN :
       sess' = [sess EXCEPT !.app = app, !.has_ocr = has_ocr]
  /\ UNCHANGED <<chunkVars, storeVars, thr, lru, uiVars>>

\* VectorStore() followed by create_from_chunks(chs), as the n-th ingestion
\* call of the session makes them
NewStore(chs, encode_ok, n) ==
  LET c == CreateCall(NoIndex, chs, encode_ok)
  IN  [id |-> n, index |-> c.index, chunks |-> c.chunks, ended |-> c.ended]

\* process_pdf(uploaded_file) of app.py
ProcessPdf ==
  /\ sess.app = "app"
  /\ sess.calls < MaxIngests
  /\ \E f \in UploadedFiles, encode_ok \in BOOLEAN :
       LET r == extract_text_from_pdf(f.pages, sess.has_ocr)
           has_text == f.readable /\ HasText(r[1])
           vs == NewStore(chunk_text(r[1], r[2]), encode_ok, sess.calls + 1)
           last == [op |-> "process_pdf", returned |-> "False",
                    creates |-> IF has_text THEN 1 ELSE 0,
                    no_content |-> NoContent(<<f>>, sess.has_ocr)]
       IN  IF has_text /\ vs.ended = "ok"
           THEN sess' = [sess EXCEPT
                           !.vector_store = <<vs>>,
                           !.chat_handler = <<[vector_store |-> vs]>>,
                           !.document_name = FileName(1),
                           !.messages = @ + 1,
                           !.calls = @ + 1,
                           !.last = [last EXCEPT !.returned = "True"]]
           ELSE sess' = [sess EXCEPT !.calls = @ + 1, !.last = last]
  /\ UNCHANGED <<chunkVars, storeVars, thr, lru, uiVars>>

\* process_documents(uploaded_files) of app3.py and app4.py
ProcessDocuments ==
  /\ sess.app \in {"app3", "app4"}
  /\ sess.calls < MaxIngests
  /\ \E n \in 0..MaxFiles, encode_ok \in BOOLEAN :
       \E files \in [1..n -> UploadedFiles] :
         LET g == Gather(files, 1, sess.has_ocr, <<>>, <<>>)
             vs == NewStore(g.all_chunks, encode_ok, sess.calls + 1)
             last == [op |-> "process_documents", returned |-> "False",
                      creates |-> IF g.all_chunks # <<>> THEN 1 ELSE 0,
                      no_content |-> NoContent(files, sess.has_ocr)]
         IN  IF n = 0
             THEN sess' = [sess EXCEPT !.calls = @ + 1, !.last = last]
             ELSE IF g.all_chunks = <<>>
             THEN sess' = [sess EXCEPT !.documents = g.documents,
                                       !.processing = FALSE,
                                       !.calls = @ + 1, !.last = last]
             ELSE IF vs.ended # "ok"
             THEN sess' = [sess EXCEPT !.documents = g.documents,
                                       !.processing = FALSE,
                                       !.calls = @ + 1,
                                       !.last = [last EXCEPT !.returned = "raised"]]
             ELSE sess' = [sess EXCEPT
                             !.documents = g.documents,
                             !.processing = FALSE,
                             !.vector_store = <<vs>>,
                             !.chat_handler = <<[vector_store |-> vs]>>,
                             !.insights = IF sess.app = "app3" /\ Len(g.documents) = 1
                                          THEN g.documents[1].name ELSE @,
                             !.messages = @ + 1,
                             !.calls = @ + 1,
                             !.last = [last EXCEPT !.returned = "True"]]
  /\ UNCHANGED <<chunkVars, storeVars, thr, lru, uiVars>>

IngestNext == RunApp \/ ProcessPdf \/ ProcessDocuments

(* ------------------------------ ChatHandler ---------------------------- *)
\* a response longer than this many words is given a summary
AutoSummarizeTokens == 250

\* most entries a conversation history holds in the model
MaxHistory == 2

\* what the model object does with one prompt: it returns a text, here a
\* sequence of words, or every way of invoking it fails
ShortAnswer == <<"answer">>
LongAnswer == [i \in 1..(AutoSummarizeTokens + 1) |-> "word"]
ModelFails == [ok |-> FALSE, text |-> <<>>]
ModelReplies ==
  {ModelFails, [ok |-> TRUE, text |-> ShortAnswer], [ok |-> TRUE, text |-> LongAnswer]}
SummaryReplies == {ModelFails, [ok |-> TRUE, text |-> <<"summary">>]}

\* the answer returned when the context is blank
NotFoundAnswer == <<"I couldn't find relevant information in the uploaded documents.">>

\* f"{summary}\n\n---\n**Full Answer:**\n\n{response_text}"
WithSummary(summary, response_text) ==
  summary \o <<"---", "**Full", "Answer:**">> \o response_text

\* get_response that appends the entry before it calls the model
GetResponseCallRecordFirst(history, query, context, sources, main, summ) ==
  IF Strip(context) = <<>>
  THEN [history |-> history, outcome |-> "not_found", response |-> NotFoundAnswer,
        sources |-> <<>>, calls |-> 0]
  ELSE [history |-> Append(history, [query |-> query, response |-> main.text,
                                     sources |-> sources]),
        outcome |-> IF main.ok THEN "answered" ELSE "raised",
        response |-> main.text, sources |-> IF main.ok THEN sources ELSE <<>>,
        calls |-> 1]

\* get_response after get_context_for_query has returned (context, sources):
\* the history afterwards, how the call ended, what it returned and the
\* number of _call_model calls made; main and summ are what the model does
\* with the prompt and with the summary prompt
GetResponseCall(history, query, context, sources, main, summ) ==
  IF Strip(context) = <<>>
  THEN [history |-> history, outcome |-> "not_found", response |-> NotFoundAnswer,
        sources |-> <<>>, calls |-> 0]
  ELSE IF ~main.ok
  THEN [history |-> history, outcome |-> "raised", response |-> <<>>,
        sources |-> <<>>, calls |-> 1]
  ELSE LET long == Len(main.text) > AutoSummarizeTokens
           response_text == IF long /\ summ.ok
                            THEN WithSummary(summ.text, main.text)
                            ELSE main.text
           entry == [query |-> query, response |-> response_text, sources |-> sources]
       IN  [history |-> Append(history, entry), outcome |-> "answered",
            response |-> response_text, sources |-> sources,
            calls |-> IF long THEN 2 ELSE 1]

NoResponse ==
  [op |-> "none", query |-> <<>>, context |-> <<>>, main |-> ModelFails,
   summ |-> ModelFails, outcome |-> "none", response |-> <<>>, sources |-> <<>>,
   calls |-> 0]

\* ChatHandler.__init__
ChatInit == chat = [history |-> <<>>, last |-> NoResponse]

\* get_response(query, k, max_context_chars=budget)
GetResponse ==
  /\ Len(chat.history) < MaxHistory
  /\ \E query \in Queries, k \in 1..MaxK, budget \in {MaxBudget} :
       \E r \in {SearchCall(index, store_chunks, cache, query, k)} :
         /\ cache' = r[2]
         /\ evicted' = (evicted \/ (~r[3] /\ Len(r[2]) = Len(cache) /\ index.built
                                      /\ ~CacheHas(cache, CacheKey(query, k))))
         /\ \E ctx \in {ContextFor(r[1], budget)} :
              /\ ret' = [Ret("context", query, k, budget, r[1], r[3], ctx)
                           EXCEPT !.raised = r[4]]
              /\ \E main \in ModelReplies, summ \in SummaryReplies :
                   \E g \in {GetResponseCall(chat.history, query, ctx.context,
                                             ctx.sources, main, summ)} :
                     chat' = [history |-> g.history,
                              last |-> [op |-> "get_response", query |-> query,
                                        context |-> ctx.context, main |-> main,
                                        summ |-> summ, outcome |-> g.outcome,
                                        response |-> g.response,
                                        sources |-> g.sources, calls |-> g.calls]]
  /\ UNCHANGED <<index, store_chunks, builds, last_build, since_clear>>
  /\ UNCHANGED <<chunkVars, thr, lru, sess, ui>>

\* clear_history()
ClearHistory ==
  /\ chat' = [history |-> <<>>, last |-> [NoResponse EXCEPT !.op = "clear_history"]]
  /\ UNCHANGED <<chunkVars, storeVars, thr, lru, sess, ui>>

ChatNext == BuildOnce \/ GetResponse \/ ClearHistory

(* ------------------- the session of app3.py and app4.py ---------------- *)
\* deque(maxlen=6)
MemoryMaxLen == 6

\* most get_response calls one ChatHandler of a session answers in the model
MaxQueries == 4

\* most messages the chat of a session shows in the model
MaxMessages == 9

\* a Python value with its type; None carries no value
Py(type, v) == [type |-> type, v |-> v]
PyNone == Py("NoneType", <<>>)

\* bool(x)
Truthy(x) ==
  /\ x.type # "NoneType"
  /\ x.type = "int" => x.v # 0
  /\ x.type \in {"list", "dict"} => x.v # <<>>

\* an append on a deque without maxlen
DequeAppendUnbounded(d, x) == Append(d, x)

\* memory_buffer.append(x) on a deque(maxlen=6): a full deque drops its
\* leftmost item
DequeAppend(d, x) ==
  IF Len(d) = MemoryMaxLen THEN Append(Tail(d), x) ELSE Append(d, x)

\* what the user types, and what the model does with a prompt
UserInputs == {<<"q1">>, <<"q2">>}
UiReplies == {ModelFails, [ok |-> TRUE, text |-> ShortAnswer]}

\* the context the session's store returns for a query: the store is built
\* from chunks with text, so it is never blank
SomeContext == <<"c">>

RECURSIVE build_memory_context(_, _)
\* build_memory_context() from item i (0-based) on: the role is assigned by
\* the parity of the index
build_memory_context(items, i) ==
  IF i >= Len(items) THEN <<>>
  ELSE <<IF i % 2 = 0 THEN "User:" ELSE "Assistant:">> \o items[i + 1].text
         \o build_memory_context(items, i + 1)

\* add_query_stats(duration, text): query_count += 1, then
\* response_times.append(duration)
AddQueryStats(s) ==
  IF s.query_count.type # "int" THEN [raised |-> TRUE, s |-> s]
  ELSE LET s1 == [s EXCEPT !.query_count = Py("int", @.v + 1)]
       IN  IF s.response_times.type # "list" THEN [raised |-> TRUE, s |-> s1]
           ELSE [raised |-> FALSE,
                 s |-> [s1 EXCEPT !.response_times = Py("list", Append(@.v, 0))]]

\* the values Reset Session assigns: app3 assigns the defaults, app4 assigns
\* None to every key but messages
ResetValue(app, default) == IF app = "app4" THEN PyNone ELSE default

\* main() gets as far as the chat: app4 evaluates
\* `insights or query_count > 0` on the way
MainRenders(app, s) ==
  app = "app4" => (Truthy(s.insights) \/ s.query_count.type = "int")

NoAction == [op |-> "none", outcome |-> "none", ok |-> FALSE]

\* init_session_state()
UiInit ==
  ui = [messages |-> <<>>, vector_store |-> PyNone, chat_handler |-> PyNone,
        documents |-> Py("dict", <<>>), processing |-> FALSE, insights |-> PyNone,
        query_count |-> Py("int", 0), response_times |-> Py("list", <<>>),
        memory_buffer |-> <<>>, last |-> NoAction]

Message(role, content) == [role |-> role, content |-> content]

\* the upload area: process_documents(uploaded_files) for files of which
\* docs have text; built tells whether model and store could be made
Process(app) ==
  /\ ~Truthy(ui.vector_store)
  /\ \E docs \in {<<>>, <<"A">>, <<"A", "B">>}, built \in BOOLEAN :
       LET s1 == [ui EXCEPT !.documents = Py("dict", docs), !.processing = FALSE]
       IN  IF docs = <<>>
           THEN ui' = [s1 EXCEPT !.last = [op |-> "process", outcome |-> "False", ok |-> built]]
           ELSE IF ~built
           THEN ui' = [s1 EXCEPT !.last = [op |-> "process", outcome |-> "raised", ok |-> built]]
           ELSE ui' = [s1 EXCEPT
                         !.vector_store = Py("VectorStore", docs),
                         !.chat_handler = Py("ChatHandler", <<>>),
                         !.insights = IF app = "app3" /\ Len(docs) = 1
                                      THEN Py("dict", docs) ELSE @,
                         !.messages = Append(@, Message("assistant", <<"Processed">>)),
                         !.last = [op |-> "process", outcome |-> "True", ok |-> built]]
  /\ UNCHANGED <<chunkVars, storeVars, thr, lru, sess, chat>>

\* the chat input: a question typed or spoken
Ask(app) ==
  /\ Truthy(ui.vector_store)
  /\ MainRenders(app, ui)
  /\ ~ui.processing
  /\ Len(ui.chat_handler.v) < MaxQueries
  /\ Len(ui.messages) + 2 <= MaxMessages
  /\ \E user_input \in UserInputs, main \in UiReplies :
       LET prompt == IF app = "app3"
                     THEN build_memory_context(ui.memory_buffer, 0)
                            \o <<"User:">> \o user_input
                     ELSE user_input
           g == GetResponseCall(ui.chat_handler.v, prompt, SomeContext, <<>>,
                                main, ModelFails)
           s1 == [ui EXCEPT !.chat_handler = Py("ChatHandler", g.history)]
           stats == IF g.outcome = "raised" THEN [raised |-> TRUE, s |-> ui]
                    ELSE AddQueryStats(s1)
           failed == [op |-> "ask", outcome |-> "error", ok |-> main.ok]
           error == Message("assistant", <<"Error:">>)
       IN  IF stats.raised
           THEN ui' = [stats.s EXCEPT
                         !.messages = IF app = "app3" THEN Append(@, error) ELSE @,
                         !.last = failed]
           ELSE ui' = [stats.s EXCEPT
                         !.memory_buffer =
                            IF app = "app3"
                            THEN DequeAppend(DequeAppend(@,
                                   [author |-> "user", text |-> user_input]),
                                   [author |-> "assistant", text |-> g.response])
                            ELSE @,
                         !.messages = Append(Append(@, Message("user", user_input)),
                                             Message("assistant", g.response)),
                         !.last = [op |-> "ask", outcome |-> "answered", ok |-> main.ok]]
  /\ UNCHANGED <<chunkVars, storeVars, thr, lru, sess, chat>>

\* the buttons Summarize and Generate Quiz: generate_summary_all() and
\* generate_quiz(5); an exception ends the script run
Generate(app, op) ==
  /\ Truthy(ui.vector_store)
  /\ Len(ui.chat_handler.v) < MaxQueries
  /\ Len(ui.messages) + 2 <= MaxMessages
  /\ \E main \in UiReplies :
       LET g == GetResponseCall(ui.chat_handler.v, <<op>>, SomeContext, <<>>,
                                main, ModelFails)
           s1 == [ui EXCEPT !.chat_handler = Py("ChatHandler", g.history)]
           stats == IF g.outcome = "raised" THEN [raised |-> TRUE, s |-> ui]
                    ELSE AddQueryStats(s1)
       IN  IF stats.raised
           THEN ui' = [stats.s EXCEPT
                         !.last = [op |-> op, outcome |-> "raised", ok |-> main.ok]]
           ELSE ui' = [stats.s EXCEPT
                         !.messages =
                            IF op = "summary"
                            THEN Append(Append(@, Message("user", <<"Summarize">>)),
                                        Message("assistant", g.response))
                            ELSE @,
                         !.last = [op |-> op, outcome |-> "answered", ok |-> main.ok]]
  /\ UNCHANGED <<chunkVars, storeVars, thr, lru, sess, chat>>

\* the button Clear chat
ClearChat(app) ==
  /\ Truthy(ui.vector_store)
  /\ ui' = [ui EXCEPT !.messages = <<>>,
                      !.memory_buffer = IF app = "app4" THEN <<>> ELSE @,
                      !.last = [op |-> "clear_chat", outcome |-> "done", ok |-> TRUE]]
  /\ UNCHANGED <<chunkVars, storeVars, thr, lru, sess, chat>>

\* the button Reset Session
ResetSession(app) ==
  /\ Truthy(ui.vector_store)
  /\ MainRenders(app, ui)
  /\ ui' = [ui EXCEPT !.messages = <<>>,
                      !.documents = ResetValue(app, Py("dict", <<>>)),
                      !.vector_store = PyNone,
                      !.chat_handler = PyNone,
                      !.insights = PyNone,
                      !.query_count = ResetValue(app, Py("int", 0)),
                      !.response_times = ResetValue(app, Py("list", <<>>)),
                      !.memory_buffer = <<>>,
                      !.last = [op |-> "reset", outcome |-> "done", ok |-> TRUE]]
  /\ UNCHANGED <<chunkVars, storeVars, thr, lru, sess, chat>>

App3Next ==
  \/ Process("app3") \/ Ask("app3") \/ Generate("app3", "summary")
  \/ Generate("app3", "quiz") \/ ClearChat("app3") \/ ResetSession("app3")

App4Next ==
  \/ Process("app4") \/ Ask("app4") \/ Generate("app4", "summary")
  \/ Generate("app4", "quiz") \/ ClearChat("app4") \/ ResetSession("app4")

(* --------------------------- specifications --------------------------- *)
Init ==
  /\ ChunkInit /\ StoreInit /\ ThreadInit /\ LruInit /\ SessInit
  /\ ChatInit /\ UiInit

\* extract_text_from_pdf and chunk_text on every bounded input
ChunkSpec == Init /\ [][ChunkNext]_vars

\* every sequence of builds, searches and clears on one VectorStore
StoreSpec == Init /\ [][StoreNext]_vars

\* every sequence of get_context_for_query calls on a store built once
ContextSpec == Init /\ [][ContextNext]_vars

\* every sequence of get_context_for_query calls on a store built once from
\* a list that may hold a chunk longer than the citation snippet
CiteSpec == Init /\ [][CiteNext]_vars

\* callers running search concurrently on a store built once, interleaved
\* at the steps of SimpleLRUCache.get and SimpleLRUCache.set
ConcSpec == Init /\ [][ConcNext]_vars

\* every sequence of get and set calls on a SimpleLRUCache of capacity
\* 0..CacheCapacity
CacheSpec == Init /\ [][CacheNext]_vars

\* every sequence of ingestion calls in a session of app.py, app3.py or
\* app4.py
IngestSpec == Init /\ [][IngestNext]_vars

\* every sequence of get_response and clear_history calls on a ChatHandler
\* whose store is built once
ChatSpec == Init /\ [][ChatNext]_vars

\* every sequence of user actions in a session of app3.py
App3Spec == Init /\ [][App3Next]_vars

\* every sequence of user actions in a session of app4.py
App4Spec == Init /\ [][App4Next]_vars

(* ==================== properties of the VectorStore =================== *)

\* what an uncached search over the current chunks and index returns
Uncached(query, k) ==
  IF ~index.built \/ Len(store_chunks) = 0 THEN <<>>
  ELSE FreshSearch(index, store_chunks, query, k)

\* C1: after a rebuild every search(q, k) returns what a fresh, uncached
\* search over the new chunk list returns: whatever the number of builds, a
\* search returns exactly the uncached result over the current chunks.
C1_RebuildInvalidates ==
  ret.op = "search" => ret.value = Uncached(ret.query, ret.k)

\* C3: for a non-empty result list the returned context string, labels and
\* separators included, is at most budget + len("...") characters long.
C3_ContextBudget ==
  (ret.op = "context" /\ ret.value # <<>>) =>
    Len(ret.context) <= ret.budget + Len(Marker)

\* C4: on a store built once, every search returns the list a cache-less
\* search of the same index returns for that query and k.
C4_CacheTransparent ==
  (builds = 1 /\ ret.op = "search") => ret.value = Uncached(ret.query, ret.k)

\* a search answered from the cache, on a store built once whose cache has
\* already evicted an entry
C4_Witness ==
  /\ builds = 1
  /\ index.built
  /\ evicted
  /\ ret.op = "search"
  /\ ret.hit
  /\ Len(ret.value) = 2

\* C5: with callers interleaved arbitrarily no call fails, and every call
\* that returns yields the list it would return when run alone.
C5_ConcurrentReadSafe ==
  \A t \in Threads :
    /\ thr[t].pc # "failed"
    /\ thr[t].pc = "done" => thr[t].val = Uncached(thr[t].query, thr[t].k)

\* the chunk body crosses the budget
Crosses(b) == b.before + Len(b.txt) > ret.budget

\* C10 as stated: a chunk crossing the budget is placed as its first
\* (budget - running length) characters followed by "...", in every case.
C10_AlwaysMarked ==
  ret.op = "context" =>
    \A i \in 1..Len(ret.bodies) :
      Crosses(ret.bodies[i]) =>
        ret.bodies[i].add_txt =
          PySlice(ret.bodies[i].txt, 0, ret.budget - ret.bodies[i].before) \o Marker

\* C10 as amended: a chunk crossing the budget is placed as its first
\* (budget - running length) characters, followed by "..." exactly when the
\* remaining space budget - running length is more than 3.
C10_MarkedWhenRoom ==
  ret.op = "context" =>
    \A i \in 1..Len(ret.bodies) :
      LET b == ret.bodies[i]
          remaining == ret.budget - b.before
      IN  Crosses(b) =>
            /\ remaining >= 1
            /\ SubSeq(b.add_txt, 1, remaining) = SubSeq(b.txt, 1, remaining)
            /\ remaining > 3 => SubSeq(b.add_txt, remaining + 1, Len(b.add_txt)) = Marker
            /\ remaining <= 3 => Len(b.add_txt) = remaining

\* a second chunk truncated to a remaining space of at most 3, left unmarked
C10_Witness ==
  /\ ret.op = "context"
  /\ Len(ret.bodies) = 2
  /\ Crosses(ret.bodies[2])
  /\ ret.budget - ret.bodies[2].before <= 3
  /\ ret.bodies[2].before > 0

(* ====================== properties of chunk_text ====================== *)

\* C2: chunk_text terminates for every text and every 0 <= O < S because
\* every iteration that continues the loop moves start strictly forward.
C2_ForwardProgress ==
  [][(pc = "loop" /\ pc' = "loop") => start' > start]_vars

\* C6: when chunk_text has returned, every offset of the text holding a
\* non-whitespace character lies in [start_pos, end_pos) of some chunk.
C6_Coverage ==
  pc = "done" =>
    \A o \in 0..(Len(text) - 1) :
      ~IsSpace(text[o + 1]) =>
        \E i \in 1..Len(chunks) :
          chunks[i].start_pos <= o /\ o < chunks[i].end_pos

\* C7 as stated: every two consecutive chunks overlap by exactly O characters.
C7_ExactOverlap ==
  \A i \in 1..(Len(chunks) - 1) :
    chunks[i + 1].start_pos = chunks[i].end_pos - overlap

\* C7 as amended: two consecutive chunks between which no candidate with an
\* empty stripped text was dropped overlap by exactly O characters.
C7_OverlapUnlessDropped ==
  \A i \in 1..(Len(chunks) - 1) :
    dropped[i + 1] = 0 =>
      chunks[i + 1].start_pos = chunks[i].end_pos - overlap

\* consecutive chunks with a positive overlap, one pair adjacent and one pair
\* separated by a dropped candidate
C7_Witness ==
  /\ overlap > 0
  /\ Len(chunks) >= 3
  /\ \E i \in 2..Len(chunks) : dropped[i] = 0
  /\ \E i \in 2..Len(chunks) : dropped[i] = 1

\* first offset of page p (1-based) in the flattened text
RECURSIVE PageStart(_)
PageStart(p) ==
  IF p <= 1 THEN 0
  ELSE PageStart(p - 1) + Len(PageText(doc.pages[p - 1], doc.has_ocr)) + 2

\* the page whose text, or whose trailing separator, holds offset o
PageOf(o) ==
  SetMax({p \in 1..Len(doc.pages) : PageStart(p) <= o})

\* C8: for text and page map produced by extract_text_from_pdf, every chunk's
\* page is the page holding the chunk's midpoint, a separator offset counting
\* for the nearest preceding page.
C8_PageAttribution ==
  doc.from_pdf =>
    \A i \in 1..Len(chunks) :
      chunks[i].page =
        PageOf(chunks[i].start_pos
                 + (chunks[i].end_pos - chunks[i].start_pos) \div 2)

\* C9: every chunk satisfies 0 <= start_pos < end_pos <= len(text).
C9_SpanInvariant ==
  \A i \in 1..Len(chunks) :
    /\ 0 <= chunks[i].start_pos
    /\ chunks[i].start_pos < chunks[i].end_pos
    /\ chunks[i].end_pos <= Len(text)

\* the loop has produced a chunk and then moved start below 0
C9_Witness ==
  /\ pc = "loop"
  /\ start < 0
  /\ Len(chunks) >= 1

(* ============== properties of the citations and of search ============= *)

\* C11: get_context_for_query returns one citation per chunk placed in the
\* context, in result order: the context is the labelled parts of the first
\* n results joined by the separator, n the number of citations, and the
\* i-th citation holds the i-th result's document and page, the first 800
\* characters of its untruncated text and its score unchanged.
C11_CitationsParallel ==
  ret.op = "context" =>
    LET n == Len(ret.sources)
    IN  /\ n <= Len(ret.value)
        /\ Len(ret.bodies) = n
        /\ ret.context =
             JoinParts([i \in 1..n |->
                          ContextPart(ret.value[i].chunk, ret.bodies[i].add_txt)])
        /\ \A i \in 1..n :
             LET chunk == ret.value[i].chunk
                 src == ret.sources[i]
             IN  /\ ret.bodies[i].txt = chunk.text
                 /\ src.document = chunk.document
                 /\ src.page = chunk.page
                 /\ src.text = PySlice(chunk.text, 0, SnippetCap)
                 /\ Len(src.text) <= SnippetCap
                 /\ src.relevance_score = ret.value[i].score

\* two citations, the second for a chunk longer than 800 characters whose
\* copy in the context was truncated
C11_Witness ==
  /\ ret.op = "context"
  /\ Len(ret.sources) = 2
  /\ Len(ret.value[2].chunk.text) > SnippetCap
  /\ Len(ret.sources[2].text) = SnippetCap
  /\ ret.bodies[2].add_txt # ret.bodies[2].txt
  /\ ret.bodies[2].add_txt # ret.sources[2].text

\* C12: create_from_chunks([]) ends in an error and leaves the index as it
\* was (None on a fresh store), and every search after it, until the next
\* build, returns the empty list without raising.
C12_EmptyBuildBenign ==
  /\ [][(ret'.op = "create" /\ last_build' = "empty") =>
          (ret'.raised /\ index' = index /\ store_chunks' = <<>>)]_vars
  /\ [](last_build = "empty" =>
          /\ builds = 1 => ~index.built
          /\ ret.op = "create" => ret.raised
          /\ ret.op = "search" => (ret.value = <<>> /\ ~ret.raised))

\* a search after an empty build on a store that was built before and has
\* cached results
C12_Witness ==
  /\ last_build = "empty"
  /\ ret.op = "search"
  /\ index.built
  /\ cache # <<>>

\* C13: on a store whose index is None (never built, a build that failed,
\* or cleared) search returns the empty list for every query and every
\* k > 0 and does not raise.
C13_UnbuiltSearchEmpty ==
  (ret.op = "search" /\ ~index.built) =>
    (ret.k > 0 /\ ret.value = <<>> /\ ~ret.raised /\ ~ret.hit)

\* a search on a store without an index whose chunk list is not empty (the
\* one build attempted failed in the embedding call)
C13_Witness ==
  /\ ret.op = "search"
  /\ ~index.built
  /\ store_chunks # <<>>
  /\ builds = 1

\* the list res holds exactly min(k, n) pairs, each a distinct chunk of chs
\* with its similarity to query, no chunk left out is strictly more similar
\* than one included, and the first pair is of maximal similarity
IsTopK(res, chs, query, k) ==
  LET n == Len(chs)
      m == IF k < n THEN k ELSE n
      sim(j) == Score(query, chs[j].text)
  IN  /\ Len(res) = m
      /\ \E f \in [1..m -> 1..n] :
           /\ \A p1, p2 \in 1..m : f[p1] = f[p2] => p1 = p2
           /\ \A p \in 1..m : res[p].chunk = chs[f[p]] /\ res[p].score = sim(f[p])
           /\ \A j \in 1..n : (\A p \in 1..m : f[p] # j) =>
                                 \A p \in 1..m : sim(j) <= res[p].score
      /\ m >= 1 => \A j \in 1..n : sim(j) <= res[1].score

\* C14: on a store built from n >= 1 chunks, search(q, k) with k >= 1
\* returns exactly min(k, n) pairs, each a distinct indexed chunk, none left
\* out more similar than one included, the first of maximal similarity.
C14_ExactTopK ==
  (ret.op = "search" /\ index.built /\ last_build = "ok") =>
    IsTopK(ret.value, store_chunks, ret.query, ret.k)

\* C15: on a built store the scores of the list search returns are
\* non-increasing from first to last, for a list computed from the index
\* and for a list taken from the cache.
C15_ScoresNonIncreasing ==
  (ret.op = "search" /\ index.built) =>
    \A p \in 1..(Len(ret.value) - 1) : ret.value[p].score >= ret.value[p + 1].score

\* a list of two pairs with different scores, answered from the cache
C15_Witness ==
  /\ ret.op = "search"
  /\ index.built
  /\ ret.hit
  /\ Len(ret.value) = 2
  /\ ret.value[1].score > ret.value[2].score

\* C20: get_context_for_query returns ("", []) exactly when search returned
\* no results; for a non-empty result list and a budget of at least 1 the
\* context is a non-empty string and the citation list is non-empty.
C20_NoContentSignal ==
  ret.op = "context" =>
    /\ (ret.context = <<>> /\ ret.sources = <<>>) <=> (ret.value = <<>>)
    /\ (ret.value # <<>> /\ ret.budget >= 1) =>
          (ret.context # <<>> /\ ret.sources # <<>>)

\* results exist and the budget of 1 is smaller than the first chunk's text
C20_Witness ==
  /\ ret.op = "context"
  /\ ret.value # <<>>
  /\ ret.budget = 1
  /\ Len(ret.value[1].chunk.text) > 1
  /\ Len(ret.sources) = 1

(* =================== properties of the SimpleLRUCache ================= *)

\* C16: a set that inserts a new key into a cache holding `capacity`
\* entries evicts exactly one entry, the key whose most recent access (a get
\* that hit, or a set) is the oldest among the keys held; a get that hits
\* moves its key to the most-recently-used end, leaves the other entries in
\* place and returns the value last set for the key.
C16_LruEvictionOrder ==
  [][LET key == lru'.key
         held == KeysOf(lru.data) \cup {key}
         gone == held \ KeysOf(lru'.data)
     IN  /\ (lru'.op = "set" /\ ~CacheHas(lru.data, key)
               /\ Len(lru.data) = lru.capacity) =>
               /\ gone = {Head(Append(lru.uses, key))}
               /\ Len(lru'.data) = Len(lru.data)
               /\ KeysOf(lru'.data) \subseteq held
         /\ (lru'.op = "get" /\ CacheHas(lru.data, key)) =>
               /\ lru'.found
               /\ lru'.result = lru.written[key]
               /\ lru'.data[Len(lru'.data)].key = key
               /\ Without([i \in 1..Len(lru'.data) |-> lru'.data[i].key], key)
                    = Without([i \in 1..Len(lru.data) |-> lru.data[i].key], key)
               /\ [i \in 1..Len(lru'.data) |-> lru'.data[i].key] = lru'.uses]_vars

\* a set on a full cache of capacity 2 after three keys were written: an
\* entry was evicted
C16_Witness ==
  /\ lru.op = "set"
  /\ lru.capacity = 2
  /\ Len(lru.data) = 2
  /\ Cardinality(DOMAIN lru.written) = 3

\* C17: after every completed get or set on a SimpleLRUCache of capacity
\* c >= 0 the cache holds at most c entries.
C17_CapacityBound ==
  lru.made => (lru.capacity >= 0 /\ Len(lru.data) <= lru.capacity)

\* a cache of capacity 1 holding one entry after two keys were written,
\* and the last call was a get
C17_Witness ==
  /\ lru.op = "get"
  /\ lru.found
  /\ lru.capacity = 1
  /\ Len(lru.data) = 1
  /\ Cardinality(DOMAIN lru.written) >= 2

(* ================= properties of extract_text_from_pdf ================ *)

\* the document was read by extract_text_from_pdf and every page_text was
\* empty (no text on the page, or only whitespace, and nothing from OCR)
Degenerate ==
  /\ doc.from_pdf
  /\ \A i \in 1..Len(doc.pages) : PageText(doc.pages[i], doc.has_ocr) = <<>>

\* C18 as stated: a document with no pages, or whose pages all have empty
\* text, yields a flattened text of length 0 and an empty page map.
C18_DegenerateEmptyText ==
  Degenerate => (Len(text) = 0 /\ DOMAIN page_mapping = {})

\* C18 as amended: such a document yields an empty page map and a text made
\* of the two newlines appended per page: 2 * pages characters, all
\* whitespace, and of length 0 only when the document has no pages.
C18_DegenerateOnlySeparators ==
  Degenerate =>
    /\ DOMAIN page_mapping = {}
    /\ Len(text) = 2 * Len(doc.pages)
    /\ \A i \in 1..Len(text) : text[i] = "\n"
    /\ Strip(text) = <<>>

\* a document of two pages, one blank and one holding only whitespace,
\* for which chunk_text then returned no chunk
C18_Witness ==
  /\ Degenerate
  /\ Len(doc.pages) = 2
  /\ \E i \in 1..2 : doc.pages[i].text # <<>>
  /\ Len(text) = 4
  /\ pc = "done"
  /\ chunks = <<>>

(* ====================== properties of ingestion ======================= *)

\* C19: an ingestion call none of whose documents has text (the flattened
\* text is empty or whitespace-only) returns False to its caller, makes no
\* create_from_chunks call and leaves the session's vector_store and
\* chat_handler as they were.
C19_EmptyAbortsIngestion ==
  [][sess'.last.no_content =>
       /\ sess'.last.returned = "False"
       /\ sess'.last.creates = 0
       /\ sess'.vector_store = sess.vector_store
       /\ sess'.chat_handler = sess.chat_handler]_vars

\* a session holding a store from an earlier ingestion, whose last
\* ingestion call found no text
C19_Witness ==
  /\ sess.last.no_content
  /\ sess.last.returned = "False"
  /\ sess.vector_store # <<>>
  /\ sess.chat_handler # <<>>
  /\ sess.calls = 2

(* =============== further properties of chunk_text ===================== *)

CharAt(txt, p) == txt[p + 1]

\* offsets p of the scan window below the raw end e that follow a sentence
\* terminator (".", "!", "?" or a newline) and carry a whitespace character
TerminatorOffsets(txt, e) ==
  {p \in 1..(Len(txt) - 1) :
     /\ e - ScanWindow <= p /\ p <= e
     /\ (IsTerm(CharAt(txt, p - 1)) \/ CharAt(txt, p - 1) = "\n")
     /\ IsSpace(CharAt(txt, p))}

VariantScanWindow == 100

\* sentence_ends = ['.', '!', '?', '\n']
IsSentenceEnd(c) == c \in {".", "!", "?", "\n"}

\* end of the candidate starting at st: the first i of
\* range(end - 100, end) with i > 0, text[i] a sentence end and text[i + 1]
\* whitespace gives best_break = i + 1
VariantEnd(txt, st, size) ==
  LET n == Len(txt)
      end == st + size
  IN  IF end < n
      THEN LET hits == {i \in (end - VariantScanWindow)..(end - 1) :
                          /\ i > 0
                          /\ IsSentenceEnd(CharAt(txt, i))
                          /\ IsSpace(CharAt(txt, i + 1))}
           IN  IF hits = {} THEN end ELSE SetMin(hits) + 1
      ELSE n

\* the dict the earlier variant appends
VariantChunk(txt, mapping, st, end) ==
  LET mid_position == st + (end - st) \div 2
  IN  [text |-> Strip(PySlice(txt, st, end)),
       page |-> PageGet(mapping, mid_position),
       start_pos |-> st, end_pos |-> end]

\* one iteration of `while start < len(text)` of the earlier variant
VariantStep ==
  /\ pc = "loop"
  /\ start < Len(text)
  /\ Len(chunks) < MaxChunks
  /\ \E end \in {VariantEnd(text, start, chunk_size)} :
     LET kept == Strip(PySlice(text, start, end)) # <<>>
         k == Len(dropped)
     IN  /\ chunks' = IF kept
                      THEN Append(chunks, VariantChunk(text, page_mapping, start, end))
                      ELSE chunks
         /\ dropped' = IF kept THEN Append(dropped, 0)
                       ELSE [dropped EXCEPT ![k] = 1]
         /\ start' = IF end < Len(text) THEN end - overlap ELSE Len(text)
  /\ UNCHANGED <<pc, text, page_mapping, chunk_size, overlap, doc>>
  /\ UNCHANGED <<storeVars, thr, auxVars>>

VariantNext == CallChunkText \/ VariantStep \/ ChunkReturn

VariantSpec == Init /\ [][VariantNext]_vars

\* C23: every iteration of the earlier variant's loop leaves start larger
\* than it found it, so the loop reaches len(text) and the call returns
C23_VariantProgress ==
  [][(pc = "loop" /\ start < Len(text)) => start' > start]_vars

(* ============== further properties of get_context_for_query =========== *)

\* characters of chunk body placed by the first n included chunks
RECURSIVE BodyLength(_, _)
BodyLength(bodies, n) ==
  IF n = 0 THEN 0 ELSE BodyLength(bodies, n - 1) + Len(bodies[n].add_txt)

\* C24: of the chunks placed by get_context_for_query only the last may be
\* truncated, every earlier one is placed whole; a result is placed, in the
\* context and in the citations alike, only while the running body length is
\* below the budget, and the results are placed in rank order until the
\* running length reaches the budget or the results are used up.
C24_TruncatedIsLast ==
  ret.op = "context" =>
    LET n == Len(ret.bodies)
    IN  /\ Len(ret.sources) = n
        /\ n <= Len(ret.value)
        /\ \A i \in 1..n :
             /\ ret.bodies[i].txt = ret.value[i].chunk.text
             /\ ret.bodies[i].before = BodyLength(ret.bodies, i - 1)
             /\ ret.bodies[i].before < ret.budget
             /\ i < n => (~Crosses(ret.bodies[i])
                            /\ ret.bodies[i].add_txt = ret.bodies[i].txt)
        /\ n < Len(ret.value) => BodyLength(ret.bodies, n) >= ret.budget

\* two chunks placed, the first whole and the second truncated
C24_Witness ==
  /\ ret.op = "context"
  /\ Len(ret.bodies) = 2
  /\ ~Crosses(ret.bodies[1])
  /\ Crosses(ret.bodies[2])
  /\ ret.bodies[2].add_txt # ret.bodies[2].txt

\* C27: the chunk bodies placed in one context, the "..." of a truncation
\* included and the labels and separators excluded, total at most
\* budget + 3 characters, and at most budget characters when no chunk was
\* truncated.
C27_BodyBudget ==
  ret.op = "context" =>
    LET n == Len(ret.bodies)
    IN  /\ BodyLength(ret.bodies, n) <= ret.budget + Len(Marker)
        /\ (\A i \in 1..n : ~Crosses(ret.bodies[i])) =>
              BodyLength(ret.bodies, n) <= ret.budget

\* a context whose bodies total budget + 3: the second chunk was truncated
\* with the marker
C27_Witness ==
  /\ ret.op = "context"
  /\ Len(ret.bodies) = 2
  /\ Crosses(ret.bodies[2])
  /\ BodyLength(ret.bodies, 2) = ret.budget + Len(Marker)

(* ================= further properties of the store ==================== *)

\* C25: after a create_from_chunks that raised on a built store, the index
\* holds one vector per chunk of the chunk list, vector i being the
\* embedding of chunk i, and every pair a search returns carries the score
\* of its own chunk.
C25_FailedRebuildConsistent ==
  (last_build = "failed" /\ index.built) =>
    /\ Len(index.vecs) = Len(store_chunks)
    /\ \A i \in 1..Len(store_chunks) : index.vecs[i] = store_chunks[i].text
    /\ ret.op \in {"search", "context"} =>
         \A p \in 1..Len(ret.value) :
           ret.value[p].score = Score(ret.query, ret.value[p].chunk.text)

\* C29: clear() leaves the store as a new one is (no index, no chunks, an
\* empty cache); every search between clear() and the next build that
\* succeeds returns the empty list; and after clear() and one
\* create_from_chunks every search returns what an uncached search of the
\* new chunk list returns, for the pairs cached before clear() as well.
C29_ClearResets ==
  /\ ret.op = "clear" => (index = NoIndex /\ store_chunks = <<>> /\ cache = <<>>)
  /\ since_clear.phase = "cleared" =>
       /\ cache = <<>>
       /\ ret.op \in {"search", "context"} => ret.value = <<>>
  /\ (since_clear.phase = "rebuilt" /\ ret.op \in {"search", "context"}) =>
       ret.value = Uncached(ret.query, ret.k)

\* a search after clear() and a build, for a pair that was cached when
\* clear() was called with a different result list
C29_Witness ==
  /\ since_clear.phase = "rebuilt"
  /\ ret.op = "search"
  /\ CacheHas(since_clear.before, CacheKey(ret.query, ret.k))
  /\ CacheRead(since_clear.before, CacheKey(ret.query, ret.k)) # ret.value
  /\ ret.value # <<>>

(* ===================== properties of ChatHandler ====================== *)

\* C28: a get_response call that returns a generated answer appends exactly
\* one entry, holding the query and the answer returned, to the conversation
\* history; a call whose context is blank leaves the history as it was and
\* invokes the model not at all; a call whose model invocation fails raises
\* and leaves the history as it was; and a failure of the summary call of a
\* long answer neither raises nor keeps the entry from being appended.
C28_HistoryOnSuccess ==
  [][chat'.last.op = "get_response" =>
       LET l == chat'.last
           n == Len(chat.history)
           blank == Strip(l.context) = <<>>
       IN  /\ l.outcome \in {"answered", "not_found", "raised"}
           /\ l.outcome = "answered" =>
                /\ Len(chat'.history) = n + 1
                /\ SubSeq(chat'.history, 1, n) = chat.history
                /\ chat'.history[n + 1].query = l.query
                /\ chat'.history[n + 1].response = l.response
                /\ chat'.history[n + 1].sources = l.sources
           /\ blank => (l.outcome = "not_found" /\ l.calls = 0
                          /\ chat'.history = chat.history)
           /\ (~blank /\ ~l.main.ok) =>
                (l.outcome = "raised" /\ chat'.history = chat.history)
           /\ (~blank /\ l.main.ok) => l.outcome = "answered"
    ]_chat

\* a long answer whose summary call failed, recorded as the second entry
C28_Witness ==
  /\ chat.last.op = "get_response"
  /\ chat.last.outcome = "answered"
  /\ Len(chat.last.main.text) > AutoSummarizeTokens
  /\ ~chat.last.summ.ok
  /\ chat.last.calls = 2
  /\ Len(chat.history) = 2

(* ================= properties of the app sessions ===================== *)

\* C26: in every state of an app4.py session query_count is an integer
\* >= 0, response_times is a list and documents is a mapping; whenever
\* documents are loaded the page renders as far as the chat, and a question
\* the model answers is counted and recorded as a user message followed by
\* the assistant's answer.
C26_SessionWellTyped ==
  /\ ui.query_count.type = "int" /\ ui.query_count.v >= 0
  /\ ui.response_times.type = "list"
  /\ ui.documents.type = "dict"
  /\ Truthy(ui.vector_store) => MainRenders("app4", ui)
  /\ (ui.last.op = "ask" /\ ui.last.ok) =>
       /\ ui.last.outcome = "answered"
       /\ Len(ui.messages) >= 2
       /\ ui.messages[Len(ui.messages) - 1].role = "user"
       /\ ui.messages[Len(ui.messages)].role = "assistant"

\* C30: the memory_buffer of an app3.py session holds an even number of
\* items, at most 6, the items at even (0-based) positions written by the
\* user and those at odd positions by the assistant.
C30_MemoryParity ==
  LET m == ui.memory_buffer
  IN  /\ Len(m) % 2 = 0
      /\ Len(m) <= MemoryMaxLen
      /\ \A i \in 0..(Len(m) - 1) :
           m[i + 1].author = IF i % 2 = 0 THEN "user" ELSE "assistant"

\* a full memory whose oldest exchange has been dropped: the chat still
\* shows the first question, the memory starts with a later one
C30_Witness ==
  /\ Len(ui.memory_buffer) = MemoryMaxLen
  /\ Len(ui.messages) = 9
  /\ ui.messages[2].content = <<"q1">>
  /\ ui.memory_buffer[1].text = <<"q2">>
  /\ ui.last.op = "ask"

====
